---------------------------- MODULE Spec2Model ----------------------------
(***************************************************************************)
(* A model of TimetableCSP (src/csp_solver.py): the construction of the    *)
(* CSP variables and domains from the parsed catalogs, the consistency     *)
(* check, the MRV variable selection and the recursive backtracking        *)
(* search with its iteration budget.                                       *)
(*                                                                         *)
(* Strings that the code only compares for equality (room ids, timeslot    *)
(* ids, instructor ids, days) are TLA+ strings.  Strings that the code     *)
(* takes apart or puts together (the room and course types, lower-cased    *)
(* and searched for "lecture"/"lab"; the section and course ids, joined    *)
(* into the variable name) are sequences of one-character strings.         *)
(* A Python dict is a function; where the code iterates a dict the model   *)
(* keeps it as the sequence of its items in insertion order.               *)
(***************************************************************************)
EXTENDS Integers, Sequences, FiniteSets, TLC

VARIABLES
    courses,            \* self.courses: course id -> [name, type]
    rooms,              \* self.rooms, in insertion order: <<[id, type, capacity]>>
    timeslots,          \* self.timeslots: <<[id, day, start, end]>>
    instructor_courses, \* self.instructor_courses, in insertion order: <<[id, name, courses]>>
    section_courses,    \* self.section_courses, in insertion order: <<[id, student_count, courses]>>
    variables,          \* self.variables: sequence of variable names
    variable_info,      \* self.variable_info: variable name -> attributes
    domains,            \* self.domains: variable name -> sequence of values
    assignment,         \* self.assignment: variable name -> value
    assignment_order,   \* the keys of self.assignment in insertion order
    max_iterations,     \* the budget of the running backtracking_search call
    iterations,         \* iterations[0]
    stack,              \* the active backtrack() calls that are in their for loop
    pc,                 \* where the program is
    result,             \* the value the backtrack() call that ended last returned
    success,            \* what backtracking_search returned
    run,                \* how many backtracking_search calls were started
    first_run,          \* the model and the outcome of the first backtracking_search call
    built,              \* how many TimetableCSP objects were constructed
    schedule_df         \* what generate_schedule_dataframe returned

vars == <<courses, rooms, timeslots, instructor_courses, section_courses,
          variables, variable_info, domains, assignment, assignment_order, max_iterations,
          iterations, stack, pc, result, success, run, first_run, built,
          schedule_df>>

catalogVars == <<courses, rooms, timeslots, instructor_courses, section_courses>>
cspVars == <<variables, variable_info, domains>>

-----------------------------------------------------------------------------
(* Strings as character sequences *)

Str_lecture == <<"l","e","c","t","u","r","e">>
Str_lab == <<"l","a","b">>
Str_Lecture == <<"L","e","c","t","u","r","e">>
Str_Lab == <<"L","a","b">>
Str_LectureAndLab == <<"L","e","c","t","u","r","e"," ","a","n","d"," ","L","a","b">>
Str_Tutorial == <<"T","u","t","o","r","i","a","l">>
Str_C1 == <<"C","1">>
Str_C2 == <<"C","2">>
Str_CX == <<"C","X">>
Str_S1 == <<"S","1">>
Str_S2 == <<"S","2">>

UpperLetters == <<"A","B","C","D","E","F","G","H","I","J","K","L","M",
                  "N","O","P","Q","R","S","T","U","V","W","X","Y","Z">>
LowerLetters == <<"a","b","c","d","e","f","g","h","i","j","k","l","m",
                  "n","o","p","q","r","s","t","u","v","w","x","y","z">>

\* str.lower() on one character
LowerChar(c) ==
    IF \E i \in DOMAIN UpperLetters : UpperLetters[i] = c
    THEN LowerLetters[CHOOSE i \in DOMAIN UpperLetters : UpperLetters[i] = c]
    ELSE c

\* str.lower()
Lower(s) == [i \in 1..Len(s) |-> LowerChar(s[i])]

\* Python's  sub in s  on strings
Contains(sub, s) ==
    \E i \in 1..(Len(s) - Len(sub) + 1) : SubSeq(s, i, i + Len(sub) - 1) = sub

\* f"{section_id}_{course_id}"
VarName(section_id, course_id) == section_id \o <<"_">> \o course_id

-----------------------------------------------------------------------------
(* Generic sequence helpers *)

RECURSIVE ConcatAll(_)
ConcatAll(ss) == IF ss = <<>> THEN <<>> ELSE Head(ss) \o ConcatAll(Tail(ss))

Min(a, b) == IF a <= b THEN a ELSE b

Range(s) == {s[i] : i \in DOMAIN s}

EmptyDict == <<>>
NoVar == <<>>           \* None, as select_unassigned_variable returns it

-----------------------------------------------------------------------------
(* _create_variables *)

\* the variable names one section contributes: one per listed course that
\* is in the course catalog
SectionVariables(cs, section) ==
    LET InCatalog(course_id) == course_id \in DOMAIN cs
        listed == SelectSeq(section.courses, InCatalog)
    IN  [i \in 1..Len(listed) |->
            [name |-> VarName(section.id, listed[i]),
             info |-> [section_id |-> section.id,
                       course_id |-> listed[i],
                       student_count |-> section.student_count,
                       course_type |-> cs[listed[i]].type,
                       course_name |-> cs[listed[i]].name]]]

\* every (name, info) the loop of _create_variables appends, in order
CreatedVariables(cs, sc) ==
    ConcatAll([s \in 1..Len(sc) |-> SectionVariables(cs, sc[s])])

\* self.variables after _create_variables
CreateVariables(cs, sc) ==
    LET cv == CreatedVariables(cs, sc) IN [i \in 1..Len(cv) |-> cv[i].name]

\* self.variable_info after _create_variables: a later write to the same
\* name replaces the earlier one
CreateVariableInfo(cs, sc) ==
    LET cv == CreatedVariables(cs, sc)
        Last(n) == CHOOSE i \in 1..Len(cv) :
                      /\ cv[i].name = n
                      /\ \A j \in (i+1)..Len(cv) : cv[j].name # n
    IN  [n \in {cv[i].name : i \in 1..Len(cv)} |-> cv[Last(n)].info]

-----------------------------------------------------------------------------
(* _create_domains *)

FallbackRooms == 10

\* _room_matches_course
RoomMatchesCourse(room_type, course_type) ==
    LET room_lower == Lower(room_type)
        course_lower == Lower(course_type)
    IN  IF Contains(Str_lecture, course_lower) /\ Contains(Str_lecture, room_lower)
        THEN TRUE
        ELSE IF Contains(Str_lab, course_lower) /\ Contains(Str_lab, room_lower)
        THEN TRUE
        ELSE IF Contains(Str_lecture, course_lower) /\ Contains(Str_lab, course_lower)
        THEN TRUE
        ELSE FALSE

RoomIds(rs) == [i \in 1..Len(rs) |-> rs[i].id]

\* suitable_rooms without the last resort: an empty list stays empty
SuitableRoomsNoFallback(rs, course_type, student_count) ==
    LET Fits(r) == RoomMatchesCourse(r.type, course_type)
                      /\ r.capacity >= student_count
        Matches(r) == RoomMatchesCourse(r.type, course_type)
        fitting == RoomIds(SelectSeq(rs, Fits))
        matching == RoomIds(SelectSeq(rs, Matches))
    IN  IF fitting # <<>> THEN fitting ELSE matching

\* suitable_rooms with the capacity never asked for
SuitableRoomsNoCapacity(rs, course_type, student_count) ==
    LET Matches(r) == RoomMatchesCourse(r.type, course_type)
        matching == RoomIds(SelectSeq(rs, Matches))
    IN  IF matching # <<>> THEN matching
        ELSE SubSeq(RoomIds(rs), 1, Min(FallbackRooms, Len(rs)))

\* suitable_rooms without the relaxation of the capacity: with no room of
\* the type and the capacity, the first rooms are taken
SuitableRoomsNoRelax(rs, course_type, student_count) ==
    LET Fits(r) == RoomMatchesCourse(r.type, course_type)
                      /\ r.capacity >= student_count
        fitting == RoomIds(SelectSeq(rs, Fits))
    IN  IF fitting # <<>> THEN fitting
        ELSE SubSeq(RoomIds(rs), 1, Min(FallbackRooms, Len(rs)))

\* suitable_rooms with the last resort taking the last rooms of the catalog
SuitableRoomsFallbackTail(rs, course_type, student_count) ==
    LET Fits(r) == RoomMatchesCourse(r.type, course_type)
                      /\ r.capacity >= student_count
        Matches(r) == RoomMatchesCourse(r.type, course_type)
        fitting == RoomIds(SelectSeq(rs, Fits))
        matching == RoomIds(SelectSeq(rs, Matches))
    IN  IF fitting # <<>> THEN fitting
        ELSE IF matching # <<>> THEN matching
        ELSE SubSeq(RoomIds(rs), Len(rs) - Min(FallbackRooms, Len(rs)) + 1,
                    Len(rs))

\* suitable_rooms: type and capacity, else type only, else the first rooms
SuitableRooms(rs, course_type, student_count) ==
    LET Fits(r) == RoomMatchesCourse(r.type, course_type)
                      /\ r.capacity >= student_count
        Matches(r) == RoomMatchesCourse(r.type, course_type)
        fitting == RoomIds(SelectSeq(rs, Fits))
        matching == RoomIds(SelectSeq(rs, Matches))
    IN  IF fitting # <<>> THEN fitting
        ELSE IF matching # <<>> THEN matching
        ELSE SubSeq(RoomIds(rs), 1, Min(FallbackRooms, Len(rs)))

\* qualified_instructors with the placeholder added to the qualified ones
QualifiedInstructorsAndPlaceholder(ics, course_id) ==
    LET Qualified(ins) == course_id \in ins.courses
        qualified == SelectSeq(ics, Qualified)
    IN  [i \in 1..Len(qualified) |-> qualified[i].id] \o <<"UNASSIGNED">>

\* qualified_instructors: the qualified ones, else the placeholder
QualifiedInstructors(ics, course_id) ==
    LET Qualified(ins) == course_id \in ins.courses
        qualified == SelectSeq(ics, Qualified)
    IN  IF qualified # <<>>
        THEN [i \in 1..Len(qualified) |-> qualified[i].id]
        ELSE <<"UNASSIGNED">>

\* self.instructor_courses.get(instructor_id, {}).get('name', 'Unassigned')
InstructorName(ics, instructor_id) ==
    IF \E i \in 1..Len(ics) : ics[i].id = instructor_id
    THEN ics[CHOOSE i \in 1..Len(ics) : ics[i].id = instructor_id].name
    ELSE "Unassigned"

\* the domain of one variable with the timeslot loop outermost: timeslot,
\* then room, then instructor
BuildDomainSlotOuter(rs, ts, ics, info) ==
    LET suitable_rooms == SuitableRooms(rs, info.course_type, info.student_count)
        qualified_instructors == QualifiedInstructors(ics, info.course_id)
        Value(room_id, timeslot, instructor_id) ==
            [room |-> room_id,
             timeslot_id |-> timeslot.id,
             day |-> timeslot.day,
             start_time |-> timeslot.start,
             end_time |-> timeslot.end,
             instructor_id |-> instructor_id,
             instructor_name |-> InstructorName(ics, instructor_id)]
        ForRoom(room_id, timeslot) ==
            [i \in 1..Len(qualified_instructors) |->
                Value(room_id, timeslot, qualified_instructors[i])]
        ForSlot(timeslot) ==
            ConcatAll([r \in 1..Len(suitable_rooms) |->
                          ForRoom(suitable_rooms[r], timeslot)])
    IN  ConcatAll([t \in 1..Len(ts) |-> ForSlot(ts[t])])

\* the domain of one variable: room, then timeslot, then instructor
BuildDomain(rs, ts, ics, info) ==
    LET suitable_rooms == SuitableRooms(rs, info.course_type, info.student_count)
        qualified_instructors == QualifiedInstructors(ics, info.course_id)
        Value(room_id, timeslot, instructor_id) ==
            [room |-> room_id,
             timeslot_id |-> timeslot.id,
             day |-> timeslot.day,
             start_time |-> timeslot.start,
             end_time |-> timeslot.end,
             instructor_id |-> instructor_id,
             instructor_name |-> InstructorName(ics, instructor_id)]
        ForSlot(room_id, timeslot) ==
            [i \in 1..Len(qualified_instructors) |->
                Value(room_id, timeslot, qualified_instructors[i])]
        ForRoom(room_id) ==
            ConcatAll([t \in 1..Len(ts) |-> ForSlot(room_id, ts[t])])
    IN  ConcatAll([r \in 1..Len(suitable_rooms) |-> ForRoom(suitable_rooms[r])])

\* self.domains after _create_domains
CreateDomains(rs, ts, ics, vs, vinfo) ==
    [n \in Range(vs) |-> BuildDomain(rs, ts, ics, vinfo[n])]

-----------------------------------------------------------------------------
(* is_consistent *)

\* is_consistent with the placeholder instructor clashing like any other
IsConsistentPlaceholderClash(vinfo, asg, var, value) ==
    LET Clash(assigned_var) ==
            \/ /\ value.room = asg[assigned_var].room
               /\ value.timeslot_id = asg[assigned_var].timeslot_id
            \/ /\ value.instructor_id = asg[assigned_var].instructor_id
               /\ value.timeslot_id = asg[assigned_var].timeslot_id
            \/ /\ vinfo[var].section_id = vinfo[assigned_var].section_id
               /\ value.timeslot_id = asg[assigned_var].timeslot_id
    IN  \A assigned_var \in DOMAIN asg : ~Clash(assigned_var)

\* is_consistent without constraint 1, the room conflict
IsConsistentNoRoom(vinfo, asg, var, value) ==
    LET Clash(assigned_var) ==
            \/ /\ value.instructor_id = asg[assigned_var].instructor_id
               /\ value.timeslot_id = asg[assigned_var].timeslot_id
               /\ value.instructor_id # "UNASSIGNED"
            \/ /\ vinfo[var].section_id = vinfo[assigned_var].section_id
               /\ value.timeslot_id = asg[assigned_var].timeslot_id
    IN  \A assigned_var \in DOMAIN asg : ~Clash(assigned_var)

\* is_consistent without constraint 2, the instructor conflict
IsConsistentNoInstructor(vinfo, asg, var, value) ==
    LET Clash(assigned_var) ==
            \/ /\ value.room = asg[assigned_var].room
               /\ value.timeslot_id = asg[assigned_var].timeslot_id
            \/ /\ vinfo[var].section_id = vinfo[assigned_var].section_id
               /\ value.timeslot_id = asg[assigned_var].timeslot_id
    IN  \A assigned_var \in DOMAIN asg : ~Clash(assigned_var)

\* is_consistent without constraint 3, the section conflict
IsConsistentNoSection(vinfo, asg, var, value) ==
    LET Clash(assigned_var) ==
            \/ /\ value.room = asg[assigned_var].room
               /\ value.timeslot_id = asg[assigned_var].timeslot_id
            \/ /\ value.instructor_id = asg[assigned_var].instructor_id
               /\ value.timeslot_id = asg[assigned_var].timeslot_id
               /\ value.instructor_id # "UNASSIGNED"
    IN  \A assigned_var \in DOMAIN asg : ~Clash(assigned_var)

IsConsistent(vinfo, asg, var, value) ==
    LET room == value.room
        timeslot_id == value.timeslot_id
        instructor_id == value.instructor_id
        section_id == vinfo[var].section_id
        Clash(assigned_var) ==
            LET assigned_room == asg[assigned_var].room
                assigned_timeslot == asg[assigned_var].timeslot_id
                assigned_instructor == asg[assigned_var].instructor_id
                assigned_section == vinfo[assigned_var].section_id
            IN  \/ room = assigned_room /\ timeslot_id = assigned_timeslot
                \/ /\ instructor_id = assigned_instructor
                   /\ timeslot_id = assigned_timeslot
                   /\ instructor_id # "UNASSIGNED"
                \/ section_id = assigned_section /\ timeslot_id = assigned_timeslot
    IN  \A assigned_var \in DOMAIN asg : ~Clash(assigned_var)

-----------------------------------------------------------------------------
(* select_unassigned_variable *)

\* a sort that is not stable: of equal keys the later element comes first
RECURSIVE SortByDomainSizeUnstable(_, _)
SortByDomainSizeUnstable(doms, s) ==
    IF s = <<>> THEN <<>>
    ELSE LET init == SortByDomainSizeUnstable(doms, SubSeq(s, 1, Len(s) - 1))
             v == s[Len(s)]
             k == Cardinality({i \in DOMAIN init :
                                  Len(doms[init[i]]) < Len(doms[v])})
         IN  SubSeq(init, 1, k) \o <<v>> \o SubSeq(init, k + 1, Len(init))

\* list.sort(key=lambda v: len(self.domains[v])): a stable sort
RECURSIVE SortByDomainSize(_, _)
SortByDomainSize(doms, s) ==
    IF s = <<>> THEN <<>>
    ELSE LET init == SortByDomainSize(doms, SubSeq(s, 1, Len(s) - 1))
             v == s[Len(s)]
             k == Cardinality({i \in DOMAIN init :
                                  Len(doms[init[i]]) <= Len(doms[v])})
         IN  SubSeq(init, 1, k) \o <<v>> \o SubSeq(init, k + 1, Len(init))

\* select_unassigned_variable without the sort: the first unassigned
\* variable in construction order
SelectFirstUnassigned(vs, doms, asg) ==
    LET NotAssigned(v) == v \notin DOMAIN asg
        unassigned == SelectSeq(vs, NotAssigned)
    IN  IF unassigned = <<>> THEN NoVar
        ELSE unassigned[1]

SelectUnassignedVariable(vs, doms, asg) ==
    LET NotAssigned(v) == v \notin DOMAIN asg
        unassigned == SelectSeq(vs, NotAssigned)
    IN  IF unassigned = <<>> THEN NoVar
        ELSE SortByDomainSize(doms, unassigned)[1]

-----------------------------------------------------------------------------
(* dict operations *)

\* d[k] = v
DictSet(d, k, v) == (k :> v) @@ d

\* del d[k]
DictDel(d, k) == [x \in (DOMAIN d) \ {k} |-> d[x]]

\* the keys of d, in insertion order, after d[k] = v: a new key goes last,
\* a key already there keeps its place
KeysAfterSet(keys, k) == IF k \in Range(keys) THEN keys ELSE Append(keys, k)

\* the keys of d, in insertion order, after del d[k]
KeysAfterDel(keys, k) == LET Other(x) == x # k IN SelectSeq(keys, Other)

-----------------------------------------------------------------------------
(* generate_schedule_dataframe *)

Days == <<"Sunday", "Monday", "Tuesday", "Wednesday", "Thursday">>

\* the characters of the model's strings in code point order
Digits == <<"0","1","2","3","4","5","6","7","8","9">>
CodePointOrder ==
    <<" ">> \o Digits \o <<":">> \o UpperLetters \o <<"_">> \o LowerLetters

CharCode(c) == CHOOSE i \in DOMAIN CodePointOrder : CodePointOrder[i] = c

\* a < b on Python strings: at the first position where they differ the
\* lesser character decides, and a proper prefix is the lesser string
StrLess(a, b) ==
    LET n == Min(Len(a), Len(b))
        diff == {i \in 1..n : a[i] # b[i]}
    IN  IF diff = {} THEN Len(a) < Len(b)
        ELSE LET i == CHOOSE j \in diff : \A k \in diff : j <= k
             IN  CharCode(a[i]) < CharCode(b[i])

\* the characters of the time strings of the timeslot catalog
TimeChars(t) ==
    CASE t = "09:00" -> <<"0","9",":","0","0">>
      [] t = "10:30" -> <<"1","0",":","3","0">>
      [] t = "11:00" -> <<"1","1",":","0","0">>
      [] t = "12:30" -> <<"1","2",":","3","0">>

\* df['Day'].map(day_order): the day's rank, NaN (sorted last) for a day
\* that is not in day_order
DayOrder(day) ==
    IF \E i \in DOMAIN Days : Days[i] = day
    THEN (CHOOSE i \in DOMAIN Days : Days[i] = day) - 1
    ELSE Len(Days)

\* row a comes strictly before row b under
\* sort_values(['Day_Order', 'Start_Time', 'Section_ID'])
RowLess(a, b) ==
    \/ DayOrder(a.Day) < DayOrder(b.Day)
    \/ /\ DayOrder(a.Day) = DayOrder(b.Day)
       /\ \/ StrLess(TimeChars(a.Start_Time), TimeChars(b.Start_Time))
          \/ /\ a.Start_Time = b.Start_Time
             /\ StrLess(a.Section_ID, b.Section_ID)

\* the rows left in the order they were appended: no sort_values
SortRowsNot(rows) == rows

\* sort_values on the three keys: rows of equal keys keep their order
RECURSIVE SortRows(_)
SortRows(rows) ==
    IF rows = <<>> THEN <<>>
    ELSE LET init == SortRows(SubSeq(rows, 1, Len(rows) - 1))
             r == rows[Len(rows)]
             k == Cardinality({i \in DOMAIN init : ~RowLess(r, init[i])})
         IN  SubSeq(init, 1, k) \o <<r>> \o SubSeq(init, k + 1, Len(init))

\* the record appended for one assigned variable
ScheduleRow(info, value) ==
    [Section_ID |-> info.section_id,
     Course_Code |-> info.course_id,
     Course_Name |-> info.course_name,
     Activity_Type |-> info.course_type,
     Day |-> value.day,
     Start_Time |-> value.start_time,
     End_Time |-> value.end_time,
     Room |-> value.room,
     Instructor |-> value.instructor_name,
     Student_Count |-> info.student_count]

\* generate_schedule_dataframe: None for an empty assignment, else the
\* rows of self.assignment.items(), sorted
GenerateScheduleDataframe(keys, asg, vinfo) ==
    IF asg = EmptyDict THEN [state |-> "none", rows |-> <<>>]
    ELSE [state |-> "df",
          rows |-> SortRows([i \in 1..Len(keys) |->
                                ScheduleRow(vinfo[keys[i]], asg[keys[i]])])]

-----------------------------------------------------------------------------
(* The catalogs the model is run on *)

MaxSlots == 2
MaxIter == 5
MaxDomRooms == 11
DefaultMaxIterations == 1000

\* the k-th timeslot of the catalog: two slots a day
TimeslotAt(k) ==
    [id |-> k,
     day |-> Days[(((k - 1) \div 2) % 5) + 1],
     start |-> IF k % 2 = 1 THEN "09:00" ELSE "11:00",
     end |-> IF k % 2 = 1 THEN "10:30" ELSE "12:30"]

\* catalogs that list their timeslots out of chronological order: a Monday
\* slot before a Sunday one, and a late slot before an early one of its day
UnorderedTimeslotCatalogs ==
    {<<TimeslotAt(3), TimeslotAt(2)>>, <<TimeslotAt(2), TimeslotAt(1)>>}

TimeslotCatalogs ==
    {[k \in 1..n |-> TimeslotAt(k)] : n \in 0..MaxSlots}
        \cup UnorderedTimeslotCatalogs

Budgets == (1..MaxIter) \cup {DefaultMaxIterations}

Course(name, type) == [name |-> name, type |-> type]

CourseCatalogs ==
    {(Str_C1 :> Course("Algebra", t[1])) @@ (Str_C2 :> Course("Physics", t[2])) :
        t \in {<<Str_Lecture, Str_Lab>>,
               <<Str_Lecture, Str_Lecture>>,
               <<Str_LectureAndLab, Str_Lab>>,
               <<Str_Lecture, Str_Tutorial>>}}

Room(id, type, capacity) == [id |-> id, type |-> type, capacity |-> capacity]

RoomCatalogs ==
    {<<>>,
     <<Room("R1", Str_Lecture, 40)>>,
     <<Room("R1", Str_Lab, 40)>>,
     <<Room("R1", Str_Lecture, 40), Room("R2", Str_Lecture, 40)>>,
     <<Room("R1", Str_Lecture, 40), Room("R2", Str_Lab, 40)>>,
     <<Room("R1", Str_Lecture, 20), Room("R2", Str_Lecture, 40)>>,
     <<Room("R1", Str_Lecture, 20), Room("R2", Str_Lab, 40)>>}

Instructor(id, name, cs) == [id |-> id, name |-> name, courses |-> cs]

InstructorCatalogs ==
    {<<>>,
     <<Instructor("I1", "Amal", {Str_C1})>>,
     <<Instructor("I1", "Amal", {Str_C1, Str_C2})>>,
     <<Instructor("I1", "Amal", {Str_C1}), Instructor("I2", "Basil", {Str_C2})>>,
     <<Instructor("I1", "Amal", {Str_C1}),
       Instructor("I2", "Basil", {Str_C1, Str_C2})>>}

Section(id, n, cs) == [id |-> id, student_count |-> n, courses |-> cs]

SectionCatalogs ==
    {<<>>,
     <<Section(Str_S1, 30, <<Str_C1>>)>>,
     <<Section(Str_S1, 30, <<Str_C1, Str_C2>>)>>,
     <<Section(Str_S1, 30, <<Str_C1, Str_C1>>)>>,
     <<Section(Str_S1, 30, <<Str_CX, Str_C1>>)>>,
     <<Section(Str_S1, 30, <<Str_C1>>), Section(Str_S2, 50, <<Str_C1>>)>>,
     <<Section(Str_S1, 30, <<Str_C1>>), Section(Str_S2, 50, <<Str_C2>>)>>,
     <<Section(Str_S1, 30, <<Str_C1, Str_C2>>),
       Section(Str_S2, 50, <<Str_C1, Str_C2>>)>>}

NoOutcome ==
    [success |-> FALSE, iterations |-> 0, assignment |-> EmptyDict,
     variables |-> <<>>, domains |-> EmptyDict]

\* generate_schedule_dataframe was not called yet
NoSchedule == [state |-> "unset", rows |-> <<>>]

\* the object before __init__ builds the CSP
Unbuilt ==
    /\ variables = <<>>
    /\ variable_info = EmptyDict
    /\ domains = EmptyDict
    /\ assignment = EmptyDict
    /\ assignment_order = <<>>
    /\ max_iterations = 0
    /\ iterations = 0
    /\ stack = <<>>
    /\ pc = "new"
    /\ result = FALSE
    /\ success = FALSE
    /\ run = 0
    /\ first_run = NoOutcome
    /\ built = 0
    /\ schedule_df = NoSchedule

Init ==
    /\ courses \in CourseCatalogs
    /\ rooms \in RoomCatalogs
    /\ timeslots \in TimeslotCatalogs
    /\ instructor_courses \in InstructorCatalogs
    /\ section_courses \in SectionCatalogs
    /\ Unbuilt

\* Catalogs for the construction alone: one section, and room catalogs
\* longer than the fallback limit.  The first j rooms are of one kind, the
\* others of a second kind.
RoomNames == <<"R1", "R2", "R3", "R4", "R5", "R6", "R7", "R8", "R9", "R10",
               "R11", "R12", "R13", "R14", "R15", "R16">>

RoomKinds == {<<Str_Lecture, 40>>, <<Str_Lecture, 20>>, <<Str_Lab, 40>>,
              <<Str_Tutorial, 20>>}

DomRoomCatalogs ==
    {[i \in 1..n |-> IF i <= j THEN Room(RoomNames[i], k1[1], k1[2])
                               ELSE Room(RoomNames[i], k2[1], k2[2])] :
        n \in (0..3) \cup ((MaxDomRooms - 1)..MaxDomRooms), j \in {0, 1, 2}, k1 \in RoomKinds, k2 \in RoomKinds}

DomCourseCatalogs ==
    {(Str_C1 :> Course("Algebra", t)) @@ (Str_C2 :> Course("Physics", Str_Lab)) :
        t \in {Str_Lecture, Str_Lab, Str_LectureAndLab, Str_Tutorial}}

DomSectionCatalogs ==
    {<<Section(Str_S1, 30, <<Str_C1>>)>>,
     <<Section(Str_S1, 30, <<Str_C1, Str_C2>>)>>}

InitDom ==
    /\ courses \in DomCourseCatalogs
    /\ rooms \in DomRoomCatalogs
    /\ timeslots \in TimeslotCatalogs
    /\ instructor_courses \in InstructorCatalogs
    /\ section_courses \in DomSectionCatalogs
    /\ Unbuilt

-----------------------------------------------------------------------------
(* __init__: empty attributes, then _create_variables, then _create_domains *)

\* __init__ filling lists and dicts that every object shares: the
\* variables, domains and assignment of the object before are still there
ConstructShared ==
    /\ \/ pc = "new"
       \/ pc = "done" /\ run = 1 /\ built = 1
    /\ variables' = variables \o CreateVariables(courses, section_courses)
    /\ variable_info' = CreateVariableInfo(courses, section_courses)
                            @@ variable_info
    /\ domains' = CreateDomains(rooms, timeslots, instructor_courses,
                                variables', variable_info') @@ domains
    /\ assignment' = assignment
    /\ assignment_order' = assignment_order
    /\ built' = built + 1
    /\ pc' = "ready"
    /\ UNCHANGED <<catalogVars, max_iterations, iterations, stack,
                   result, success, run, first_run, schedule_df>>

\* TimetableCSP(data): the first object on the catalogs, or, after its
\* search, a second object on the same catalogs.  The new object has empty
\* variables, domains, variable_info and assignment, then builds them.
Construct ==
    /\ \/ pc = "new"
       \/ pc = "done" /\ run = 1 /\ built = 1
    /\ variables' = <<>> \o CreateVariables(courses, section_courses)
    /\ variable_info' = CreateVariableInfo(courses, section_courses)
                            @@ EmptyDict
    /\ domains' = CreateDomains(rooms, timeslots, instructor_courses,
                                variables', variable_info') @@ EmptyDict
    /\ assignment' = EmptyDict
    /\ assignment_order' = <<>>
    /\ built' = built + 1
    /\ pc' = "ready"
    /\ UNCHANGED <<catalogVars, max_iterations, iterations, stack,
                   result, success, run, first_run, schedule_df>>

-----------------------------------------------------------------------------
(* backtracking_search *)

\* the start of a call: the assignment and the counter are reset
BeginSearch(m) ==
    /\ assignment' = EmptyDict
    /\ assignment_order' = <<>>
    /\ iterations' = 0
    /\ max_iterations' = m
    /\ stack' = <<>>
    /\ pc' = "enter"
    /\ run' = run + 1
    /\ UNCHANGED <<catalogVars, cspVars, result, success, first_run, built, schedule_df>>

\* backtracking_search(max_iterations=m) on the first object
StartSearch ==
    /\ pc = "ready"
    /\ built = 1
    /\ \E m \in Budgets : BeginSearch(m)

\* backtracking_search called once more on the same object, same budget
SearchAgain ==
    /\ pc = "done"
    /\ run = 1
    /\ built = 1
    /\ BeginSearch(max_iterations)

\* backtracking_search on the second object, with the budget of the first
\* run
SearchFresh ==
    /\ pc = "ready"
    /\ built = 2
    /\ BeginSearch(max_iterations)

\* backtrack() returning True when no unassigned variable is left to select
EnterNoneIsSolved ==
    /\ pc = "enter"
    /\ iterations' = iterations + 1
    /\ IF iterations' >= max_iterations
       THEN /\ result' = FALSE
            /\ pc' = "ret"
            /\ stack' = stack
       ELSE LET var == SelectUnassignedVariable(variables, domains, assignment)
            IN  IF var = NoVar
                THEN /\ result' = TRUE
                     /\ pc' = "ret"
                     /\ stack' = stack
                ELSE /\ result' = result
                     /\ pc' = "loop"
                     /\ stack' = Append(stack, [var |-> var, next |-> 1,
                                                  before |-> assignment])
    /\ UNCHANGED <<catalogVars, cspVars, assignment, assignment_order, max_iterations, success,
                   run, first_run, built, schedule_df>>

\* backtrack() stopping only once the counter is past the budget
EnterBudgetStrict ==
    /\ pc = "enter"
    /\ iterations' = iterations + 1
    /\ IF iterations' > max_iterations
       THEN /\ result' = FALSE
            /\ pc' = "ret"
            /\ stack' = stack
       ELSE IF Cardinality(DOMAIN assignment) = Len(variables)
       THEN /\ result' = TRUE
            /\ pc' = "ret"
            /\ stack' = stack
       ELSE LET var == SelectUnassignedVariable(variables, domains, assignment)
            IN  IF var = NoVar
                THEN /\ result' = FALSE
                     /\ pc' = "ret"
                     /\ stack' = stack
                ELSE /\ result' = result
                     /\ pc' = "loop"
                     /\ stack' = Append(stack, [var |-> var, next |-> 1,
                                                  before |-> assignment])
    /\ UNCHANGED <<catalogVars, cspVars, assignment, assignment_order, max_iterations, success,
                   run, first_run, built, schedule_df>>

\* backtrack() testing for the complete assignment before the budget
EnterCompleteFirst ==
    /\ pc = "enter"
    /\ iterations' = iterations + 1
    /\ IF Cardinality(DOMAIN assignment) = Len(variables)
       THEN /\ result' = TRUE
            /\ pc' = "ret"
            /\ stack' = stack
       ELSE IF iterations' >= max_iterations
       THEN /\ result' = FALSE
            /\ pc' = "ret"
            /\ stack' = stack
       ELSE LET var == SelectUnassignedVariable(variables, domains, assignment)
            IN  IF var = NoVar
                THEN /\ result' = FALSE
                     /\ pc' = "ret"
                     /\ stack' = stack
                ELSE /\ result' = result
                     /\ pc' = "loop"
                     /\ stack' = Append(stack, [var |-> var, next |-> 1,
                                                  before |-> assignment])
    /\ UNCHANGED <<catalogVars, cspVars, assignment, assignment_order, max_iterations, success,
                   run, first_run, built, schedule_df>>

\* backtrack() from its first line to the for loop
Enter ==
    /\ pc = "enter"
    /\ iterations' = iterations + 1
    /\ IF iterations' >= max_iterations
       THEN /\ result' = FALSE
            /\ pc' = "ret"
            /\ stack' = stack
       ELSE IF Cardinality(DOMAIN assignment) = Len(variables)
       THEN /\ result' = TRUE
            /\ pc' = "ret"
            /\ stack' = stack
       ELSE LET var == SelectUnassignedVariable(variables, domains, assignment)
            IN  IF var = NoVar
                THEN /\ result' = FALSE
                     /\ pc' = "ret"
                     /\ stack' = stack
                ELSE /\ result' = result
                     /\ pc' = "loop"
                     /\ stack' = Append(stack, [var |-> var, next |-> 1,
                                                  before |-> assignment])
    /\ UNCHANGED <<catalogVars, cspVars, assignment, assignment_order, max_iterations, success,
                   run, first_run, built, schedule_df>>

\* of the consistent values of var from position from on, the last one only
ConsistentFromLast(var, from) ==
    LET open == {i \in from..Len(domains[var]) :
                    IsConsistent(variable_info, assignment, var, domains[var][i])}
    IN  {i \in open : \A k \in open : k <= i}

\* the positions of the values of var, from position from on, that are
\* consistent with the assignment
ConsistentFrom(var, from) ==
    {i \in from..Len(domains[var]) :
        IsConsistent(variable_info, assignment, var, domains[var][i])}

\* the for loop of the innermost call: the values from the cursor on are
\* checked in order; the first consistent one is assigned and backtrack()
\* is called; with none left the call returns False
TryValues ==
    /\ pc = "loop"
    /\ LET frame == stack[Len(stack)]
           open == ConsistentFrom(frame.var, frame.next)
       IN  IF open # {}
           THEN LET i == CHOOSE j \in open : \A k \in open : j <= k
                IN  /\ assignment' = DictSet(assignment, frame.var,
                                             domains[frame.var][i])
                    /\ assignment_order' = KeysAfterSet(assignment_order,
                                                        frame.var)
                    /\ stack' = [stack EXCEPT ![Len(stack)] =
                                    [var |-> frame.var, next |-> i,
                                     before |-> assignment]]
                    /\ pc' = "enter"
                    /\ result' = result
           ELSE /\ assignment' = assignment
                /\ assignment_order' = assignment_order
                /\ stack' = SubSeq(stack, 1, Len(stack) - 1)
                /\ pc' = "ret"
                /\ result' = FALSE
    /\ UNCHANGED <<catalogVars, cspVars, max_iterations, iterations, success,
                   run, first_run, built, schedule_df>>

\* the recursive call returned True: the caller returns True
PropagateSolved ==
    /\ pc = "ret"
    /\ stack # <<>>
    /\ result = TRUE
    /\ stack' = SubSeq(stack, 1, Len(stack) - 1)
    /\ UNCHANGED <<catalogVars, cspVars, assignment, assignment_order, max_iterations,
                   iterations, pc, result, success, run, first_run, built, schedule_df>>

\* the recursive call returned False and the caller goes on with the next
\* value without deleting its assignment
UndoNoDelete ==
    /\ pc = "ret"
    /\ stack # <<>>
    /\ result = FALSE
    /\ LET frame == stack[Len(stack)]
       IN  /\ assignment' = assignment
           /\ assignment_order' = assignment_order
           /\ stack' = [stack EXCEPT ![Len(stack)].next = frame.next + 1]
    /\ pc' = "loop"
    /\ UNCHANGED <<catalogVars, cspVars, max_iterations, iterations, result,
                   success, run, first_run, built, schedule_df>>

\* the recursive call returned False and the caller, besides deleting its
\* assignment, takes the failed value out of the variable's domain
UndoPrunes ==
    /\ pc = "ret"
    /\ stack # <<>>
    /\ result = FALSE
    /\ LET frame == stack[Len(stack)]
           dom == domains[frame.var]
       IN  /\ assignment' = DictDel(assignment, frame.var)
           /\ assignment_order' = KeysAfterDel(assignment_order, frame.var)
           /\ domains' = [domains EXCEPT ![frame.var] =
                              SubSeq(dom, 1, frame.next - 1)
                                 \o SubSeq(dom, frame.next + 1, Len(dom))]
           /\ stack' = stack
    /\ pc' = "loop"
    /\ UNCHANGED <<catalogVars, variables, variable_info, max_iterations,
                   iterations, result, success, run, first_run, built, schedule_df>>

\* the recursive call returned False: the caller deletes its assignment
\* and goes on with the next value
Undo ==
    /\ pc = "ret"
    /\ stack # <<>>
    /\ result = FALSE
    /\ LET frame == stack[Len(stack)]
       IN  /\ assignment' = DictDel(assignment, frame.var)
           /\ assignment_order' = KeysAfterDel(assignment_order, frame.var)
           /\ stack' = [stack EXCEPT ![Len(stack)].next = frame.next + 1]
    /\ pc' = "loop"
    /\ UNCHANGED <<catalogVars, cspVars, max_iterations, iterations, result,
                   success, run, first_run, built, schedule_df>>

\* the outermost backtrack() returned: backtracking_search returns it
Finish ==
    /\ pc = "ret"
    /\ stack = <<>>
    /\ success' = result
    /\ pc' = "done"
    /\ first_run' = IF run = 1
                    THEN [success |-> result, iterations |-> iterations,
                          assignment |-> assignment,
                          variables |-> variables, domains |-> domains]
                    ELSE first_run
    /\ UNCHANGED <<catalogVars, cspVars, assignment, assignment_order, max_iterations,
                   iterations, stack, result, run, built, schedule_df>>

\* generate_schedule_dataframe() on the object after a search; the program
\* ends with it
GenerateSchedule ==
    /\ pc = "done"
    /\ schedule_df' = GenerateScheduleDataframe(assignment_order, assignment,
                                                variable_info)
    /\ pc' = "reported"
    /\ UNCHANGED <<catalogVars, cspVars, assignment, assignment_order, max_iterations,
                   iterations, stack, result, success, run, first_run, built>>

Next ==
    \/ Construct
    \/ StartSearch
    \/ SearchAgain
    \/ SearchFresh
    \/ Enter
    \/ TryValues
    \/ PropagateSolved
    \/ Undo
    \/ Finish
    \/ GenerateSchedule

Spec == Init /\ [][Next]_vars

\* the construction alone, on the longer room catalogs
NextDom == Construct

SpecDom == InitDom /\ [][NextDom]_vars

-----------------------------------------------------------------------------
(* Properties *)

Assigned == DOMAIN assignment

InSearch == pc \in {"enter", "loop", "ret", "done"}

Solved == pc = "done" /\ success

SameSlot(v, w) == assignment[v].timeslot_id = assignment[w].timeslot_id

\* C1: at every point of the search, and after it, no two distinct assigned
\* variables have the same room and the same timeslot id.
C1_NoRoomClash ==
    \A v, w \in Assigned :
        v # w => ~(assignment[v].room = assignment[w].room /\ SameSlot(v, w))

\* a solved search in which two variables share a timeslot, in two rooms
C1_Witness ==
    /\ Solved
    /\ \E v, w \in Assigned :
          v # w /\ SameSlot(v, w) /\ assignment[v].room # assignment[w].room

\* C2: at every point of the search, two distinct assigned variables with
\* the same instructor id other than "UNASSIGNED" have different timeslot ids.
C2_NoInstructorClash ==
    \A v, w \in Assigned :
        (/\ v # w
         /\ assignment[v].instructor_id = assignment[w].instructor_id
         /\ assignment[v].instructor_id # "UNASSIGNED") => ~SameSlot(v, w)

\* a solved search in which one instructor teaches two variables
C2_Witness ==
    /\ Solved
    /\ \E v, w \in Assigned :
          /\ v # w
          /\ assignment[v].instructor_id = assignment[w].instructor_id
          /\ assignment[v].instructor_id # "UNASSIGNED"
          /\ assignment[v].room = assignment[w].room

\* C3: at every point of the search, two distinct assigned variables of the
\* same section have different timeslot ids.
C3_NoSectionClash ==
    \A v, w \in Assigned :
        (v # w /\ variable_info[v].section_id = variable_info[w].section_id)
            => ~SameSlot(v, w)

\* a solved search with two variables of one section
C3_Witness ==
    /\ Solved
    /\ \E v, w \in Assigned :
          /\ v # w
          /\ variable_info[v].section_id = variable_info[w].section_id
          /\ assignment[v].room = assignment[w].room
          /\ assignment[v].instructor_id = assignment[w].instructor_id

\* C4: backtracking_search returns True only with as many assigned variables
\* as there are variables, each variable holding a value of its own domain.
C4_SolvedIsComplete ==
    Solved =>
        /\ Cardinality(Assigned) = Len(variables)
        /\ \A i \in 1..Len(variables) :
              /\ variables[i] \in Assigned
              /\ assignment[variables[i]] \in Range(domains[variables[i]])

\* a solved search over at least two variables
C4_Witness == Solved /\ Len(variables) >= 2

\* C5: the iteration counter never decreases during a search and never
\* exceeds max_iterations.  The counter's bound, as the claim states it:
C5_WithinBudget == InSearch => iterations <= max_iterations

\* C5, the part that holds: within one search the counter never decreases
C5_CounterNeverDecreases ==
    [][(pc \in {"enter", "loop", "ret"}) => iterations' >= iterations]_vars

\* C6: a search that fails on its budget leaves the caller the partial
\* assignment of the moment the budget was hit.  With a budget of 2 or more
\* the budget is hit inside a recursive call, below at least one tentative
\* assignment, so the assignment the caller finds is not empty.
C6_PartialAssignmentKept ==
    (/\ pc = "done"
     /\ ~success
     /\ max_iterations >= 2
     /\ iterations >= max_iterations) => assignment # EmptyDict

\* the first run's variables, domains, result, assignment and count are
\* those of the object as it is
SameAsFirstRun ==
    first_run = [success |-> success, iterations |-> iterations,
                 assignment |-> assignment,
                 variables |-> variables, domains |-> domains]

UnassignedAt(S) == {i \in 1..Len(variables) : variables[i] \notin S}

\* v is the unassigned variable of least domain size, the first such in
\* construction order; or None when there is no unassigned variable
IsMrvChoice(v, S) ==
    IF UnassignedAt(S) = {} THEN v = NoVar
    ELSE /\ v # NoVar
         /\ \E i \in UnassignedAt(S) :
               /\ variables[i] = v
               /\ \A j \in UnassignedAt(S) :
                     /\ Len(domains[v]) <= Len(domains[variables[j]])
                     /\ Len(domains[variables[j]]) = Len(domains[v]) => i <= j

\* C8: select_unassigned_variable returns an unassigned variable of minimal
\* domain size, the first of those in construction order, and None only when
\* every variable is assigned: for every set of assigned variables on the
\* built object, and for the variable every backtrack() call selected.
C8_SelectIsMrv ==
    /\ pc = "ready" =>
          \A S \in SUBSET Range(variables) :
              IsMrvChoice(SelectUnassignedVariable(variables, domains,
                                                   [v \in S |-> TRUE]), S)
    /\ (pc = "loop" /\ stack[Len(stack)].next = 1) =>
          IsMrvChoice(stack[Len(stack)].var, Assigned)

\* a call selected a variable that is not the first unassigned one in
\* construction order, and a later variable has a domain of the same size
C8_Witness ==
    /\ pc = "loop"
    /\ stack[Len(stack)].next = 1
    /\ \E i, j \in UnassignedAt(Assigned) :
          /\ variables[i] = stack[Len(stack)].var
          /\ \A k \in 1..(i - 1) : variables[k] # variables[i]
          /\ \E k \in UnassignedAt(Assigned) : k < i
          /\ i < j
          /\ Len(domains[variables[j]]) = Len(domains[variables[i]])

\* the rooms that occur in a domain
RoomsIn(dom) == {dom[i].room : i \in DOMAIN dom}

\* no room's type matches the variable's course type
MatchingFails(v) ==
    \A i \in DOMAIN rooms :
        ~RoomMatchesCourse(rooms[i].type, variable_info[v].course_type)

\* no instructor is qualified for the variable's course
NobodyQualified(v) ==
    \A i \in DOMAIN instructor_courses :
        variable_info[v].course_id \notin instructor_courses[i].courses

\* C9: with at least one room and at least one timeslot in the catalogs,
\* every variable's domain is non-empty after construction.
C9_DomainsNonEmpty ==
    (pc = "ready" /\ rooms # <<>> /\ timeslots # <<>>) =>
        \A v \in Range(variables) : domains[v] # <<>>

\* a variable that no room matches and nobody is qualified for has a domain
C9_Witness ==
    /\ pc = "ready"
    /\ rooms # <<>>
    /\ timeslots # <<>>
    /\ \E v \in Range(variables) :
          MatchingFails(v) /\ NobodyQualified(v) /\ domains[v] # <<>>

\* C10: with at least one room, every variable's domain is
\* non-empty, and a variable that no room matches has at most FallbackRooms
\* rooms in its domain.
C10_NonEmptyWithRooms ==
    (pc = "ready" /\ rooms # <<>>) =>
        \A v \in Range(variables) :
            /\ domains[v] # <<>>
            /\ MatchingFails(v) =>
                  Cardinality(RoomsIn(domains[v])) <= FallbackRooms

\* what the construction does guarantee: the domain has values when there
\* is a timeslot as well as a room, and a variable that no room matches has
\* at most FallbackRooms rooms in its domain
NonEmptyWithSlotsAndCapped ==
    (pc = "ready" /\ rooms # <<>>) =>
        \A v \in Range(variables) :
            /\ timeslots # <<>> => domains[v] # <<>>
            /\ MatchingFails(v) =>
                  Cardinality(RoomsIn(domains[v])) <= FallbackRooms

\* more rooms than the limit, none matching: the domain has FallbackRooms rooms
FallbackCapReached ==
    /\ pc = "ready"
    /\ Len(rooms) > FallbackRooms
    /\ timeslots # <<>>
    /\ \E v \in Range(variables) :
          /\ MatchingFails(v)
          /\ Cardinality(RoomsIn(domains[v])) = FallbackRooms

\* C11: a variable that ends the construction with an empty domain makes
\* the construction fail, so no search runs with an empty domain.
C11_NoSearchOnEmptyDomain ==
    InSearch => \A v \in Range(variables) : domains[v] # <<>>

\* some section lists a course id that is not in the course catalog
HasMissingCourse ==
    \E s \in DOMAIN section_courses :
        \E c \in Range(section_courses[s].courses) : c \notin DOMAIN courses

\* C12: a section listing a course that is not in the catalog
\* makes model building fail: there are no variables and no domains.
C12_MissingCourseAborts ==
    (pc # "new" /\ HasMissingCourse) =>
        (variables = <<>> /\ DOMAIN domains = {})

\* what _create_variables does instead: a listed course that is not in the
\* catalog gets no variable, no error is raised, and every listed course
\* that is in the catalog gets its variable, one entry per such listing
MissingCourseSkipped ==
    pc # "new" =>
        /\ \A v \in Range(variables) :
              variable_info[v].course_id \in DOMAIN courses
        /\ \A s \in DOMAIN section_courses :
              \A c \in Range(section_courses[s].courses) :
                  c \in DOMAIN courses =>
                      VarName(section_courses[s].id, c) \in Range(variables)
        /\ Len(variables) =
              Cardinality({<<s, i>> \in (DOMAIN section_courses) \X (1..2) :
                              /\ i <= Len(section_courses[s].courses)
                              /\ section_courses[s].courses[i] \in DOMAIN courses})

\* a built model whose section lists a missing course and has a variable
MissingCourseSkippedReached == pc = "ready" /\ HasMissingCourse /\ variables # <<>>

\* some assigned variable has the value's timeslot and also its room, its
\* instructor (the placeholder excepted) or the variable's section
C13_Rejected(var, value) ==
    \E a \in Assigned :
        /\ assignment[a].timeslot_id = value.timeslot_id
        /\ \/ assignment[a].room = value.room
           \/ /\ assignment[a].instructor_id = value.instructor_id
              /\ value.instructor_id # "UNASSIGNED"
           \/ variable_info[a].section_id = variable_info[var].section_id

\* C13: is_consistent(var, value) is False exactly when some assigned
\* variable has the same timeslot and also the same room, the same
\* instructor other than "UNASSIGNED", or the same section; checked for
\* every variable and every value of its domain wherever a call is in its
\* for loop.  (IsConsistent is an operator: it changes nothing.)
C13_ConsistentExactly ==
    pc = "loop" =>
        \A v \in Range(variables) :
            \A i \in DOMAIN domains[v] :
                IsConsistent(variable_info, assignment, v, domains[v][i])
                    = ~C13_Rejected(v, domains[v][i])

\* the for loop meets a value it rejects, and accepts a value with the
\* placeholder instructor in a timeslot where the placeholder is assigned
C13_Witness ==
    /\ pc = "loop"
    /\ LET var == stack[Len(stack)].var
       IN  /\ \E i \in DOMAIN domains[var] :
                 ~IsConsistent(variable_info, assignment, var, domains[var][i])
           /\ \E i \in DOMAIN domains[var] : \E a \in Assigned :
                 /\ IsConsistent(variable_info, assignment, var, domains[var][i])
                 /\ domains[var][i].instructor_id = "UNASSIGNED"
                 /\ assignment[a].instructor_id = "UNASSIGNED"
                 /\ assignment[a].timeslot_id = domains[var][i].timeslot_id

\* the instructor ids qualified_instructors offers the i-th variable
InstructorsFor(i) ==
    Range(QualifiedInstructors(instructor_courses,
                               variable_info[variables[i]].course_id))

\* two variables, each with qualified instructors, none qualified for both
TwoWithDistinctInstructors ==
    /\ Len(variables) = 2
    /\ "UNASSIGNED" \notin InstructorsFor(1) \cup InstructorsFor(2)
    /\ InstructorsFor(1) \cap InstructorsFor(2) = {}

\* a search with the default budget has returned
DefaultSearchDone == pc = "done" /\ max_iterations = DefaultMaxIterations

\* C14 (scenario A): 2 variables, 1 room, 1 timeslot, distinct qualified
\* instructors, default budget: the search returns failure with at most
\* one variable assigned.
C14_OneRoomFails ==
    (/\ DefaultSearchDone
     /\ TwoWithDistinctInstructors
     /\ Len(rooms) = 1
     /\ Len(timeslots) = 1)
        => (~success /\ Cardinality(Assigned) <= 1)

\* scenario A has run: two variables of different sections, and the search
\* went into a second call before it failed
C14_Witness ==
    /\ DefaultSearchDone
    /\ TwoWithDistinctInstructors
    /\ Len(rooms) = 1
    /\ Len(timeslots) = 1
    /\ variable_info[variables[1]].section_id
          # variable_info[variables[2]].section_id
    /\ ~success
    /\ iterations >= 2

\* two variables for different courses
TwoDifferentCourses ==
    /\ Len(variables) = 2
    /\ variable_info[variables[1]].course_id
          # variable_info[variables[2]].course_id

\* both variables assigned, in one timeslot, in different rooms
BothInDifferentRooms ==
    /\ Assigned = Range(variables)
    /\ assignment[variables[1]].timeslot_id = assignment[variables[2]].timeslot_id
    /\ assignment[variables[1]].room # assignment[variables[2]].room

\* C15 as stated (scenario B): 2 variables for different courses, 2 rooms,
\* 1 timeslot, distinct instructors, default budget: the search solves,
\* with both variables in the same timeslot in different rooms.
C15_TwoRoomsSolves ==
    (/\ DefaultSearchDone
     /\ TwoDifferentCourses
     /\ TwoWithDistinctInstructors
     /\ Len(rooms) = 2
     /\ Len(timeslots) = 1)
        => (success /\ BothInDifferentRooms)

\* the two variables belong to different sections, and their domains offer
\* them two different rooms
TwoSectionsTwoRooms ==
    /\ variable_info[variables[1]].section_id
          # variable_info[variables[2]].section_id
    /\ \E i \in DOMAIN domains[variables[1]] :
          \E j \in DOMAIN domains[variables[2]] :
              domains[variables[1]][i].room # domains[variables[2]][j].room

\* C15 amended: scenario B solves when, moreover, the two variables are of
\* different sections and their domains offer them two different rooms.
C15_TwoRoomsTwoSectionsSolves ==
    (/\ DefaultSearchDone
     /\ TwoDifferentCourses
     /\ TwoWithDistinctInstructors
     /\ TwoSectionsTwoRooms
     /\ Len(rooms) = 2
     /\ Len(timeslots) = 1)
        => (success /\ BothInDifferentRooms)

\* the amended scenario B has run and solved
C15_Witness ==
    /\ DefaultSearchDone
    /\ TwoDifferentCourses
    /\ TwoWithDistinctInstructors
    /\ TwoSectionsTwoRooms
    /\ Len(rooms) = 2
    /\ Len(timeslots) = 1
    /\ success

\* C16 (scenario E): with max_iterations = 1 and at least 2 variables the
\* search takes exactly one step: the counter never passes 1 and is 1 at
\* the return, the result is failure, at most one variable is assigned.
C16_BudgetOfOne ==
    (max_iterations = 1 /\ Len(variables) >= 2) =>
        /\ InSearch => (iterations <= 1 /\ Cardinality(Assigned) <= 1)
        /\ pc = "done" => (iterations = 1 /\ ~success)

\* a search with max_iterations = 1 over two variables has returned
C16_Witness ==
    /\ pc = "done"
    /\ max_iterations = 1
    /\ Len(variables) >= 2
    /\ iterations = 1

\* the rank of a day in the week Sunday..Thursday
C17_DayRank ==
    ("Sunday" :> 0) @@ ("Monday" :> 1) @@ ("Tuesday" :> 2)
        @@ ("Wednesday" :> 3) @@ ("Thursday" :> 4)

\* row a may stand before row b: by day rank, then start time, then
\* section id
C17_InOrder(a, b) ==
    \/ C17_DayRank[a.Day] < C17_DayRank[b.Day]
    \/ /\ a.Day = b.Day
       /\ \/ StrLess(TimeChars(a.Start_Time), TimeChars(b.Start_Time))
          \/ /\ a.Start_Time = b.Start_Time
             /\ \/ StrLess(a.Section_ID, b.Section_ID)
                \/ a.Section_ID = b.Section_ID

\* the frame holds exactly one record for each assigned variable, and the
\* records are in order; no frame (None) comes for the empty assignment only
C17_OneRowEachInOrder(df) ==
    /\ df.state = "none" <=> Assigned = {}
    /\ df.state = "df" =>
          /\ Len(df.rows) = Cardinality(Assigned)
          /\ \A v \in Assigned :
                \E i \in DOMAIN df.rows :
                    /\ df.rows[i] = ScheduleRow(variable_info[v], assignment[v])
                    /\ \A j \in DOMAIN df.rows :
                          (/\ df.rows[j].Section_ID = variable_info[v].section_id
                           /\ df.rows[j].Course_Code = variable_info[v].course_id)
                              => j = i
          /\ \A i, j \in DOMAIN df.rows :
                i < j => C17_InOrder(df.rows[i], df.rows[j])

\* C17: generate_schedule_dataframe yields exactly one record per assigned
\* variable, ordered by day rank (Sunday..Thursday, 0..4), then start time,
\* then section id: for the frame made after a search, and for the frame
\* of every partial assignment the search passes through.
C17_ScheduleRows ==
    /\ pc = "reported" => C17_OneRowEachInOrder(schedule_df)
    /\ pc \in {"enter", "loop"} =>
          C17_OneRowEachInOrder(
              GenerateScheduleDataframe(assignment_order, assignment,
                                        variable_info))

\* a schedule of two records whose variables were assigned in the other
\* order: the later-assigned one is on an earlier day
C17_Witness ==
    /\ pc = "reported"
    /\ schedule_df.state = "df"
    /\ Len(schedule_df.rows) = 2
    /\ schedule_df.rows[1] =
          ScheduleRow(variable_info[assignment_order[2]],
                      assignment[assignment_order[2]])
    /\ C17_DayRank[schedule_df.rows[1].Day] < C17_DayRank[schedule_df.rows[2].Day]
    /\ StrLess(TimeChars(schedule_df.rows[2].Start_Time),
               TimeChars(schedule_df.rows[1].Start_Time))

\* C18: exactly one variable per (section, required course) pair whose
\* course is in the catalog, and the pair is the variable's identity: no
\* two entries of the variable list have the same identity, and different
\* pairs have different variables.
C18_OneVariablePerPair ==
    pc # "new" =>
        /\ \A s \in DOMAIN section_courses :
              \A c \in Range(section_courses[s].courses) \cap DOMAIN courses :
                  Cardinality({i \in DOMAIN variables :
                      /\ variable_info[variables[i]].section_id
                            = section_courses[s].id
                      /\ variable_info[variables[i]].course_id = c}) = 1
        /\ \A i, j \in DOMAIN variables :
              i # j => variables[i] # variables[j]

\* value x of variable v and value y of variable w break a clash rule
C19_Clash(v, x, w, y) ==
    /\ x.timeslot_id = y.timeslot_id
    /\ \/ x.room = y.room
       \/ x.instructor_id = y.instructor_id /\ x.instructor_id # "UNASSIGNED"
       \/ variable_info[v].section_id = variable_info[w].section_id

\* the values chosen so far can be extended, from the domains, by a value
\* for each of the variables in rest without breaking a clash rule
RECURSIVE C19_Extends(_, _)
C19_Extends(chosen, rest) ==
    IF rest = {} THEN TRUE
    ELSE LET v == CHOOSE x \in rest : TRUE
         IN  \E i \in DOMAIN domains[v] :
                 /\ \A w \in DOMAIN chosen :
                       ~C19_Clash(v, domains[v][i], w, chosen[w])
                 /\ C19_Extends((v :> domains[v][i]) @@ chosen, rest \ {v})

\* some assignment gives every variable a value of its domain and breaks
\* no clash rule
C19_SolutionExists == C19_Extends(EmptyDict, Range(variables))

\* C19: a search that returns failure with the counter below the budget
\* (Exhausted) shows that no complete assignment satisfying the clash
\* rules exists over the domains; if one exists and the budget is not
\* reached, the search returns Solved.
C19_ExhaustedMeansUnsolvable ==
    (pc = "done" /\ iterations < max_iterations /\ ~success)
        => ~C19_SolutionExists

\* C20: when the recursive call made after a tentative assignment returns
\* failure, the assignment after the undo equals the assignment just before
\* the tentative assign.  A call is back in its for loop past its first
\* value exactly after such an undo; its frame holds the assignment as it
\* was before the assign.
C20_UndoRestores ==
    (pc = "loop" /\ stack[Len(stack)].next > 1) =>
        assignment = stack[Len(stack)].before

\* an undo in a nested call: the restored assignment is not empty, and the
\* failed recursive call returned below the budget
C20_Witness ==
    /\ pc = "loop"
    /\ stack[Len(stack)].next > 1
    /\ stack[Len(stack)].before # EmptyDict
    /\ assignment = stack[Len(stack)].before
    /\ iterations < max_iterations

\* a lecture-type tag, a lab-type tag, the tag of a combined course
LectureType(t) == t \in {Str_Lecture, Str_LectureAndLab}
LabType(t) == t \in {Str_Lab, Str_LectureAndLab}
CombinedType(t) == t = Str_LectureAndLab

\* a room type is compatible with a course type: a lecture-type room for a
\* lecture-type course, a lab-type room for a lab-type course, any room for
\* a combined lecture-and-lab course
TypeCompatible(room_type, course_type) ==
    \/ LectureType(course_type) /\ LectureType(room_type)
    \/ LabType(course_type) /\ LabType(room_type)
    \/ CombinedType(course_type)

\* the ids of the rooms compatible with the variable's course type
CompatibleRooms(v) ==
    {rooms[i].id : i \in {k \in DOMAIN rooms :
        TypeCompatible(rooms[k].type, variable_info[v].course_type)}}

\* the ids of the compatible rooms that seat the variable's section
FittingRooms(v) ==
    {rooms[i].id : i \in {k \in DOMAIN rooms :
        /\ TypeCompatible(rooms[k].type, variable_info[v].course_type)
        /\ rooms[k].capacity >= variable_info[v].student_count}}

\* C22 as stated: a variable with a room that is type-compatible and large
\* enough has exactly the rooms of that kind in its domain.
C22_FittingRoomsOnly ==
    pc # "new" =>
        \A v \in Range(variables) :
            FittingRooms(v) # {} => RoomsIn(domains[v]) = FittingRooms(v)

\* the same for the catalogs with at least one timeslot, where every
\* domain of the construction has values
FittingRoomsOnlyWithSlots ==
    (pc # "new" /\ timeslots # <<>>) =>
        \A v \in Range(variables) :
            FittingRooms(v) # {} => RoomsIn(domains[v]) = FittingRooms(v)

\* a variable whose domain has its fitting rooms and leaves out a
\* compatible room that is too small
FittingRoomsReached ==
    /\ pc = "ready"
    /\ timeslots # <<>>
    /\ \E v \in Range(variables) :
          /\ FittingRooms(v) # {}
          /\ RoomsIn(domains[v]) = FittingRooms(v)
          /\ CompatibleRooms(v) \ FittingRooms(v) # {}

\* C23 as stated: a variable with compatible rooms, none of them large
\* enough, has exactly the compatible rooms in its domain.
C23_CompatibleRoomsWhenNoneFits ==
    pc # "new" =>
        \A v \in Range(variables) :
            (FittingRooms(v) = {} /\ CompatibleRooms(v) # {})
                => RoomsIn(domains[v]) = CompatibleRooms(v)

\* the same for the catalogs with at least one timeslot, where every
\* domain of the construction has values
CompatibleRoomsWhenNoneFitsWithSlots ==
    (pc # "new" /\ timeslots # <<>>) =>
        \A v \in Range(variables) :
            (FittingRooms(v) = {} /\ CompatibleRooms(v) # {})
                => RoomsIn(domains[v]) = CompatibleRooms(v)

\* a variable with no room large enough: its domain has the compatible
\* rooms and leaves out a room of another type
CompatibleRoomsReached ==
    /\ pc = "ready"
    /\ timeslots # <<>>
    /\ \E v \in Range(variables) :
          /\ FittingRooms(v) = {}
          /\ CompatibleRooms(v) # {}
          /\ RoomsIn(domains[v]) = CompatibleRooms(v)
          /\ \E i \in DOMAIN rooms : rooms[i].id \notin CompatibleRooms(v)

\* the place of a room in the room catalog
RoomIndex(room_id) == CHOOSE k \in DOMAIN rooms : rooms[k].id = room_id

\* the rooms of the domain are the first rooms of the catalog, up to
\* FallbackRooms of them, and the domain lists them in catalog order
FirstRoomsInOrder(dom) ==
    /\ RoomsIn(dom) = {rooms[k].id : k \in 1..Min(FallbackRooms, Len(rooms))}
    /\ \A i, j \in DOMAIN dom :
          i < j => RoomIndex(dom[i].room) <= RoomIndex(dom[j].room)

\* C24 as stated: a variable with no compatible room has exactly the first
\* min(10, number of rooms) rooms of the catalog in its domain, in catalog
\* order.
C24_FallbackRooms ==
    pc # "new" =>
        \A v \in Range(variables) :
            CompatibleRooms(v) = {} => FirstRoomsInOrder(domains[v])

\* the same for the catalogs with at least one timeslot, where every
\* domain of the construction has values
FallbackRoomsWithSlots ==
    (pc # "new" /\ timeslots # <<>>) =>
        \A v \in Range(variables) :
            CompatibleRooms(v) = {} => FirstRoomsInOrder(domains[v])

\* a catalog of more rooms than FallbackRooms, none compatible: the domain
\* has the first FallbackRooms rooms and not the one after them
FallbackRoomsReached ==
    /\ pc = "ready"
    /\ timeslots # <<>>
    /\ Len(rooms) > FallbackRooms
    /\ \E v \in Range(variables) :
          /\ CompatibleRooms(v) = {}
          /\ FirstRoomsInOrder(domains[v])
          /\ rooms[FallbackRooms + 1].id \notin RoomsIn(domains[v])

\* the ids of the instructors whose qualification set has the variable's
\* course
QualifiedFor(v) ==
    {instructor_courses[i].id : i \in {k \in DOMAIN instructor_courses :
        variable_info[v].course_id \in instructor_courses[k].courses}}

InstructorsIn(dom) == {dom[i].instructor_id : i \in DOMAIN dom}

\* the instructors of the variable's domain are the qualified ones; with
\* none qualified every value carries the placeholder
QualifiedOrPlaceholder(v) ==
    IF QualifiedFor(v) # {}
    THEN InstructorsIn(domains[v]) = QualifiedFor(v)
    ELSE \A i \in DOMAIN domains[v] :
             domains[v][i].instructor_id = "UNASSIGNED"

\* C25 as stated: the instructors appearing in a variable's domain are
\* exactly the instructors qualified for its course; if there is none,
\* every value of the domain carries the placeholder 'UNASSIGNED'.
C25_InstructorsOfDomain ==
    pc # "new" => \A v \in Range(variables) : QualifiedOrPlaceholder(v)

\* the same for the catalogs with at least one room and one timeslot, where
\* every domain of the construction has values
InstructorsOfDomainWithValues ==
    (pc # "new" /\ rooms # <<>> /\ timeslots # <<>>) =>
        \A v \in Range(variables) : QualifiedOrPlaceholder(v)

\* two variables of different sections hold the placeholder in the same
\* timeslot, in different rooms, in a solved search
PlaceholdersShareSlotReached ==
    /\ Solved
    /\ \E v, w \in Assigned :
          /\ v # w
          /\ assignment[v].instructor_id = "UNASSIGNED"
          /\ assignment[w].instructor_id = "UNASSIGNED"
          /\ assignment[v].timeslot_id = assignment[w].timeslot_id
          /\ assignment[v].room # assignment[w].room
          /\ variable_info[v].section_id # variable_info[w].section_id

\* the room, timeslot and instructor of a domain value
Triple(value) == <<value.room, value.timeslot_id, value.instructor_id>>

\* dom is the product of the rooms R, the timeslots T and the instructors Q,
\* room outermost, then timeslot, then instructor, each in its list's order
IsProductInOrder(dom, R, T, Q) ==
    /\ Len(dom) = Len(R) * Len(T) * Len(Q)
    /\ \A r \in DOMAIN R : \A t \in DOMAIN T : \A q \in DOMAIN Q :
          LET value == dom[(r - 1) * Len(T) * Len(Q) + (t - 1) * Len(Q) + q]
          IN  /\ Triple(value) = <<R[r], T[t].id, Q[q]>>
              /\ value.day = T[t].day
              /\ value.start_time = T[t].start
              /\ value.end_time = T[t].end
    /\ \A i, j \in DOMAIN dom : i # j => Triple(dom[i]) # Triple(dom[j])

\* C26: each variable's domain is exactly the cartesian product of its
\* qualifying rooms, all timeslots and its qualifying instructors (or the
\* placeholder), without a duplicate or a missing triple, room outermost,
\* then timeslot, then instructor, each in catalog order; its size is the
\* product of the three sizes.
C26_DomainIsProduct ==
    pc # "new" =>
        \A v \in Range(variables) :
            IsProductInOrder(
                domains[v],
                SuitableRooms(rooms, variable_info[v].course_type,
                              variable_info[v].student_count),
                timeslots,
                QualifiedInstructors(instructor_courses,
                                     variable_info[v].course_id))

\* a domain of at least two rooms, two timeslots and two instructors
C26_Witness ==
    /\ pc = "ready"
    /\ \E v \in Range(variables) :
          /\ Cardinality(RoomsIn(domains[v])) >= 2
          /\ Len(timeslots) >= 2
          /\ Cardinality(InstructorsIn(domains[v])) >= 2
          /\ Len(domains[v]) = Cardinality(RoomsIn(domains[v])) * Len(timeslots)
                                  * Cardinality(InstructorsIn(domains[v]))

\* the values of the first k - 1 variables of the assignment
AssignedBefore(k) ==
    [x \in {assignment_order[i] : i \in 1..(k - 1)} |-> assignment[x]]

\* with the values chosen, value j of variable v breaks no clash rule and
\* the other variables can still be given values: it leads to a solution
LeadsToSolved(chosen, v, j) ==
    /\ \A w \in DOMAIN chosen : ~C19_Clash(v, domains[v][j], w, chosen[w])
    /\ C19_Extends((v :> domains[v][j]) @@ chosen,
                   Range(variables) \ (DOMAIN chosen \cup {v}))

\* the place of the value of an assigned variable in its domain
ValueIndex(v) == CHOOSE i \in DOMAIN domains[v] : domains[v][i] = assignment[v]

\* in a solved search each variable keeps the first value of its domain,
\* in domain order, that leads to a solution with the values chosen before
FirstSolvingValuesKept ==
    Solved =>
        \A k \in DOMAIN assignment_order :
            LET v == assignment_order[k]
            IN  /\ LeadsToSolved(AssignedBefore(k), v, ValueIndex(v))
                /\ \A j \in 1..(ValueIndex(v) - 1) :
                      ~LeadsToSolved(AssignedBefore(k), v, j)

\* one step of the search: after a call has returned True the assignment
\* no longer changes; the for loop assigns the first value from its cursor
\* on that no assigned variable rejects; an undo moves the cursor on by one
InDomainOrderStep ==
    /\ (pc = "ret" /\ result = TRUE) => assignment' = assignment
    /\ (pc = "loop" /\ pc' = "enter") =>
          LET var == stack[Len(stack)].var
              from == stack[Len(stack)].next
              at == stack'[Len(stack)].next
          IN  /\ at >= from
              /\ assignment' = DictSet(assignment, var, domains[var][at])
              /\ ~C13_Rejected(var, domains[var][at])
              /\ \A j \in from..(at - 1) : C13_Rejected(var, domains[var][j])
    /\ (pc = "ret" /\ pc' = "loop") =>
          stack'[Len(stack)].next = stack[Len(stack)].next + 1

\* C21: candidates are tried in domain order; once a recursive call returns
\* Solved nothing more is tried at any level: the assignment is not modified
\* after the step that observes the complete assignment; and the value kept
\* for each variable is the first one in domain order that led to Solved.
C21_FirstSolutionKept ==
    [](FirstSolvingValuesKept) /\ [][InDomainOrderStep]_vars

\* a solved search that backtracked: some variable keeps a value that is
\* not the first of its domain, and an earlier value of it was consistent
\* with the values chosen before it but led to no solution
C21_Witness ==
    /\ Solved
    /\ \E k \in DOMAIN assignment_order :
          LET v == assignment_order[k]
          IN  \E j \in 1..(ValueIndex(v) - 1) :
                  \A w \in DOMAIN AssignedBefore(k) :
                      ~C19_Clash(v, domains[v][j], w, AssignedBefore(k)[w])

\* the variable list, the variable attributes and the domains are what the
\* construction builds from the catalogs
AsConstructed ==
    /\ variables = CreateVariables(courses, section_courses)
    /\ variable_info = CreateVariableInfo(courses, section_courses)
    /\ domains = CreateDomains(rooms, timeslots, instructor_courses,
                               variables, variable_info)

\* no step on the built object changes the variable list, the variable
\* attributes or a domain
ModelKept ==
    pc # "new" =>
        /\ variables' = variables
        /\ variable_info' = variable_info
        /\ domains' = domains

\* C27: backtracking_search never changes the variable list, the variable
\* attributes or a domain: what the construction built is what every state
\* of the search has, whatever value is tried, rejected or undone.
C27_ModelUnchangedBySearch ==
    [](pc = "ready" => AsConstructed) /\ [][ModelKept]_vars

\* a search that has rejected values, assigned and undone: the call is back
\* in its loop past a value, below another assigned variable
C27_Witness ==
    /\ pc = "loop"
    /\ Len(stack) >= 2
    /\ stack[Len(stack)].next > 1
    /\ \E i \in 1..(stack[Len(stack)].next - 1) :
          ~IsConsistent(variable_info, assignment, stack[Len(stack)].var,
                        domains[stack[Len(stack)].var][i])

\* C28: whenever backtracking_search returns failure, by exhaustion or by
\* the budget, the assignment left on the solver is empty: every tentative
\* assignment of the search has been deleted.
C28_FailureLeavesNothing ==
    (pc \in {"done", "reported"} /\ ~success) =>
        (assignment = EmptyDict /\ assignment_order = <<>>)

\* a search that met its budget after it had assigned, and returned failure
C28_Witness ==
    /\ pc = "done"
    /\ ~success
    /\ iterations >= max_iterations
    /\ iterations >= 3
    /\ assignment = EmptyDict

\* a step entered with a complete assignment while the counter reaches the
\* budget returns failure
BudgetBeforeCompletion ==
    (/\ pc = "enter"
     /\ Cardinality(Assigned) = Len(variables)
     /\ iterations + 1 >= max_iterations)
        => (pc' = "ret" /\ result' = FALSE)

\* C29: the budget check precedes the completion check in each step: a step
\* entered with a complete assignment at the moment the counter reaches
\* max_iterations returns failure, so a catalog of n variables is reported
\* Solved only with max_iterations >= n + 2.
C29_BudgetCheckedFirst ==
    /\ [](pc \in {"done", "reported"} /\ success
             => max_iterations >= Len(variables) + 2)
    /\ [][BudgetBeforeCompletion]_vars

\* a step has just returned failure on a complete assignment of all the
\* variables, the counter at the budget of n + 1
C29_Witness ==
    /\ pc = "ret"
    /\ result = FALSE
    /\ Len(variables) >= 1
    /\ Cardinality(Assigned) = Len(variables)
    /\ iterations = max_iterations
    /\ max_iterations = Len(variables) + 1

\* the place of the i-th variable in the order by domain size, ties in
\* construction order
OrderRank(i) ==
    1 + Cardinality({j \in DOMAIN variables :
            \/ Len(domains[variables[j]]) < Len(domains[variables[i]])
            \/ /\ Len(domains[variables[j]]) = Len(domains[variables[i]])
               /\ j < i})

\* the variables sorted by domain size, ties in construction order
FixedOrder ==
    [k \in DOMAIN variables |->
        variables[CHOOSE i \in DOMAIN variables : OrderRank(i) = k]]

\* the number of backtrack() calls that have assigned a value and wait for
\* the call they made: the depth of the call that is running
RecursionDepth == IF pc = "loop" THEN Len(stack) - 1 ELSE Len(stack)

\* the assigned variables are the first ones of the fixed order, assigned in
\* that order, and each has a value of its own domain
AssignedIsOrderedPrefix ==
    /\ \E k \in 0..Len(variables) :
          /\ Assigned = {FixedOrder[i] : i \in 1..k}
          /\ assignment_order = SubSeq(FixedOrder, 1, Len(assignment_order))
    /\ \A v \in Assigned :
          \E i \in DOMAIN domains[v] : assignment[v] = domains[v][i]

\* C30 as stated: in every state of a search the assigned variables are a
\* prefix of the fixed order, the recursion depth equals the assignment
\* size, and each assigned value is of the variable's own domain.
C30_PrefixAndDepth ==
    pc \in {"enter", "loop", "ret"} =>
        /\ AssignedIsOrderedPrefix
        /\ RecursionDepth = Cardinality(Assigned)

\* C30 amended: the same, the depth being equal to the assignment size until
\* a call returns True; while True is returned up the calls the assignment
\* stays complete and the depth goes down to zero.
C30_PrefixAndDepthUntilSolved ==
    pc \in {"enter", "loop", "ret"} =>
        /\ AssignedIsOrderedPrefix
        /\ IF pc = "ret" /\ result = TRUE
           THEN /\ Cardinality(Assigned) = Len(variables)
                /\ RecursionDepth <= Cardinality(Assigned)
           ELSE RecursionDepth = Cardinality(Assigned)

\* two calls deep, the second variable of the fixed order assigned, and the
\* fixed order is not the construction order
C30_Witness ==
    /\ pc = "enter"
    /\ Len(stack) = 2
    /\ Cardinality(Assigned) = 2
    /\ Assigned = {FixedOrder[1], FixedOrder[2]}
    /\ FixedOrder # variables

=============================================================================
